---- MODULE Spec2Model ----
(***************************************************************************)
(* AntAlmanac: the term table and its validated name enumeration           *)
(* (packages/types/src/terms.ts), the calendar toolbar with its schedule   *)
(* selector popover (components/Calendar/CalendarToolbar.tsx) and the      *)
(* responsive app bar (components/AppBar/CustomAppBar.tsx).                *)
(*                                                                         *)
(* Four specifications share the module:                                   *)
(*   SpecTerms    evaluation of terms.ts and validation of candidates      *)
(*   Spec         the schedule selector, its dialogs and the store         *)
(*   SpecToolbar  the toolbar's select, undo, clear and finals actions     *)
(*   SpecAppBar   the app bar under viewport resizes and menu clicks       *)
(***************************************************************************)
EXTENDS Integers, Sequences, FiniteSets, TLC

VARIABLES
    \* ---- terms.ts
    tpc,                  \* position in the evaluation of the module
    termNamesArray,       \* terms.ts:67
    TermNamesSchema,      \* terms.ts:68, the literals the schema accepts
    candidate,            \* last value handed to the schema
    validation,           \* its outcome: "none", "ok" or "ArkErrors"
    \* ---- AppStore and the parent of the toolbar
    schedules,            \* the store's schedules, position i+1 holds index i
    storeIndex,           \* AppStore.getCurrentScheduleIndex()
    deleted,              \* what undoDelete can bring back
    showFinalsSchedule,   \* the finals-view flag owned by the toolbar's parent
    initialFinals,        \* the flag's value before any toggle (history)
    toggles,              \* number of finals-toggle clicks so far (history)
    \* ---- SelectSchedulePopover
    mounted,
    anchorEl,             \* CalendarToolbar.tsx:133
    currentScheduleIndex, \* CalendarToolbar.tsx:131
    scheduleMap,          \* CalendarToolbar.tsx:144
    memo,                 \* the useMemo cell of currentScheduleName
    dialog,               \* the open modal dialog of the popover, if any
    listeners,            \* AppStore's listener lists, per event name
    rendered,             \* output of the last render of the selector
    calls,                \* calls made by the most recent handler, in order
    \* ---- CustomAppBar
    viewportWidth,
    appBarAnchorEl        \* CustomAppBar.tsx:51

termsVars == <<tpc, termNamesArray, TermNamesSchema, candidate, validation>>
storeVars == <<schedules, storeIndex, deleted, showFinalsSchedule, initialFinals, toggles>>
selectorVars == <<mounted, anchorEl, currentScheduleIndex, scheduleMap, memo, dialog,
                  listeners, rendered, calls>>
appBarVars == <<viewportWidth, appBarAnchorEl>>
vars == <<termsVars, storeVars, selectorVars, appBarVars>>

Range(s) == {s[i] : i \in DOMAIN s}

(***************************************************************************)
(* packages/types/src/terms.ts                                             *)
(***************************************************************************)

\* A row that was pasted from the row above it and kept that row's shortName.
TermPasted(shortName, longName, startDate) ==
    [shortName |-> IF shortName = "2023 Summer1" THEN "2023 Summer10wk" ELSE shortName,
     longName |-> longName, startDate |-> startDate]

\* One record of the table; startDate is <<>> where the source omits it.
Term(shortName, longName, startDate) ==
    [shortName |-> shortName, longName |-> longName, startDate |-> startDate]

termsArray == <<
    Term("2023 Fall", "2023 Fall Quarter", <<2023, 8, 28>>),
    Term("2023 Summer2", "2023 Summer Session 2", <<2023, 7, 7>>),
    Term("2023 Summer10wk", "2023 10-wk Summer", <<2023, 5, 26>>),
    Term("2023 Summer1", "2023 Summer Session 1", <<2023, 5, 26>>),
    Term("2023 Spring", "2023 Spring Quarter", <<2023, 3, 3>>),
    Term("2023 Winter", "2023 Winter Quarter", <<2023, 0, 9>>),
    Term("2022 Fall", "2022 Fall Quarter", <<2022, 8, 22>>),
    Term("2022 Summer2", "2022 Summer Session 2", <<2022, 7, 1>>),
    Term("2022 Summer10wk", "2022 10-wk Summer", <<2022, 5, 20>>),
    Term("2022 Summer1", "2022 Summer Session 1", <<2022, 5, 20>>),
    Term("2022 Spring", "2022 Spring Quarter", <<2022, 2, 28>>),
    Term("2022 Winter", "2022 Winter Quarter", <<2022, 0, 3>>),
    Term("2021 Fall", "2021 Fall Quarter", <<2021, 8, 23>>),
    Term("2021 Summer2", "2021 Summer Session 2", <<>>),
    Term("2021 Summer10wk", "2021 10-wk Summer", <<>>),
    Term("2021 Summer1", "2021 Summer Session 1", <<>>),
    Term("2021 Spring", "2021 Spring Quarter", <<2021, 2, 29>>),
    Term("2021 Winter", "2021 Winter Quarter", <<2021, 0, 4>>),
    Term("2020 Fall", "2020 Fall Quarter", <<2020, 9, 1>>),
    Term("2020 Summer2", "2020 Summer Session 2", <<>>),
    Term("2020 Summer10wk", "2020 10-wk Summer", <<>>),
    Term("2020 Summer1", "2020 Summer Session 1", <<>>),
    Term("2020 Spring", "2020 Spring Quarter", <<2020, 2, 30>>),
    Term("2020 Winter", "2020 Winter Quarter", <<2020, 0, 6>>),
    Term("2019 Fall", "2019 Fall Quarter", <<2019, 8, 26>>),
    Term("2019 Summer2", "2019 Summer Session 2", <<>>),
    Term("2019 Summer10wk", "2019 10-wk Summer", <<>>),
    Term("2019 Summer1", "2019 Summer Session 1", <<>>),
    Term("2019 Spring", "2019 Spring Quarter", <<>>),
    Term("2019 Winter", "2019 Winter Quarter", <<>>),
    Term("2018 Fall", "2018 Fall Quarter", <<>>),
    Term("2018 Summer2", "2018 Summer Session 2", <<>>),
    Term("2018 Summer10wk", "2018 10-wk Summer", <<>>),
    Term("2018 Summer1", "2018 Summer Session 1", <<>>),
    Term("2018 Spring", "2018 Spring Quarter", <<>>),
    Term("2018 Winter", "2018 Winter Quarter", <<>>),
    Term("2017 Fall", "2017 Fall Quarter", <<>>),
    Term("2017 Summer2", "2017 Summer Session 2", <<>>),
    Term("2017 Summer10wk", "2017 10-wk Summer", <<>>),
    Term("2017 Summer1", "2017 Summer Session 1", <<>>),
    Term("2017 Spring", "2017 Spring Quarter", <<>>),
    Term("2017 Winter", "2017 Winter Quarter", <<>>),
    Term("2016 Fall", "2016 Fall Quarter", <<>>),
    Term("2016 Summer2", "2016 Summer Session 2", <<>>),
    Term("2016 Summer10wk", "2016 10-wk Summer", <<>>),
    Term("2016 Summer1", "2016 Summer Session 1", <<>>),
    Term("2016 Spring", "2016 Spring Quarter", <<>>),
    Term("2016 Winter", "2016 Winter Quarter", <<>>),
    Term("2015 Fall", "2015 Fall Quarter", <<>>),
    Term("2015 Summer2", "2015 Summer Session 2", <<>>),
    Term("2015 Summer10wk", "2015 10-wk Summer", <<>>),
    Term("2015 Summer1", "2015 Summer Session 1", <<>>),
    Term("2015 Spring", "2015 Spring Quarter", <<>>),
    Term("2015 Winter", "2015 Winter Quarter", <<>>),
    Term("2014 Fall", "2014 Fall Quarter", <<>>)
>>

\* The map callback returning the long label instead of the key.
MapCallbackLong(term) == term.longName

\* (term) => term.shortName
MapCallback(term) == term.shortName

\* The enumeration with the second sentinel left out.
SentinelsOne == <<"Multiple Terms">>

\* The two labels appended after the mapped names.
Sentinels == <<"Multiple Terms", "Any Term">>

\* [...termsArray.map(cb), 'Multiple Terms', 'Any Term']
EvalTermNamesArrayValue ==
    [i \in 1..Len(termsArray) |-> MapCallback(termsArray[i])] \o Sentinels

\* enumerate(values): the union of the string literals of values.
enumerate(values) == Range(values)

\* type(def)(value): the value itself when it is one of the literals, else errors.
SchemaCheck(schema, value) == IF value \in schema THEN "ok" ELSE "ArkErrors"

\* Values handed to the schema: every short and long label of the table, the
\* sentinels, and strings that are near misses of a member.
Candidates ==
    {termsArray[i].shortName : i \in DOMAIN termsArray}
    \cup {termsArray[i].longName : i \in DOMAIN termsArray}
    \cup {"Multiple Terms", "Any Term", "Not A Term", "", "any term", "2023 fall",
          "2024 Winter", "Multiple Terms ", "2014 Summer1"}

InitTermsVars ==
    /\ tpc = "termNamesArray"
    /\ termNamesArray = <<>>
    /\ TermNamesSchema = {}
    /\ candidate = ""
    /\ validation = "none"

\* terms.ts:67
EvalTermNamesArray ==
    /\ tpc = "termNamesArray"
    /\ termNamesArray' = EvalTermNamesArrayValue
    /\ tpc' = "TermNamesSchema"
    /\ UNCHANGED <<TermNamesSchema, candidate, validation>>
    /\ UNCHANGED <<storeVars, selectorVars, appBarVars>>

\* terms.ts:68
EvalTermNamesSchema ==
    /\ tpc = "TermNamesSchema"
    /\ TermNamesSchema' = enumerate(termNamesArray)
    /\ tpc' = "ready"
    /\ UNCHANGED <<termNamesArray, candidate, validation>>
    /\ UNCHANGED <<storeVars, selectorVars, appBarVars>>

\* A caller validates a value: TermNamesSchema(value)
Validate(value) ==
    /\ tpc = "ready"
    /\ candidate' = value
    /\ validation' = SchemaCheck(TermNamesSchema, value)
    /\ UNCHANGED <<tpc, termNamesArray, TermNamesSchema>>
    /\ UNCHANGED <<storeVars, selectorVars, appBarVars>>

(***************************************************************************)
(* components/AppBar/CustomAppBar.tsx                                      *)
(***************************************************************************)

\* '(max-width:750px)'
Breakpoint == 750

\* Viewport widths tried: this many pixels on either side of the breakpoint.
WidthMargin == 30

Widths == (Breakpoint - WidthMargin)..(Breakpoint + WidthMargin)

\* The keys of the five elements of `components`.
components == <<"settings", "studylist", "feedback", "news", "about">>

\* The media query with the breakpoint itself counted as a wide screen.
isMobileScreenStrict(width) == width < Breakpoint

\* useMediaQuery('(max-width:750px)')
isMobileScreen(width) == width <= Breakpoint

NoMenu == [present |-> FALSE, open |-> FALSE, items |-> <<>>]

\* The element tree CustomAppBar returns, reduced to what it shows.
RenderAppBar(width, anchor) ==
    [logo |-> IF isMobileScreen(width) THEN "MobileLogo" ELSE "Logo",
     menuIcon |-> isMobileScreen(width),
     menu |-> IF isMobileScreen(width)
              THEN [present |-> TRUE, open |-> anchor # "null", items |-> components]
              ELSE NoMenu,
     inline |-> IF isMobileScreen(width) THEN <<>> ELSE components]

InitAppBarVars ==
    /\ viewportWidth \in Widths
    /\ appBarAnchorEl = "null"

\* The window is resized; useMediaQuery re-renders the bar.
Resize(width) ==
    /\ width # viewportWidth
    /\ viewportWidth' = width
    /\ UNCHANGED <<appBarAnchorEl, termsVars, storeVars, selectorVars>>

\* handleClick, the onClick of MenuIcon
AppBarHandleClick ==
    /\ RenderAppBar(viewportWidth, appBarAnchorEl).menuIcon
    /\ ~RenderAppBar(viewportWidth, appBarAnchorEl).menu.open
    /\ appBarAnchorEl' = "MenuIcon"
    /\ UNCHANGED <<viewportWidth, termsVars, storeVars, selectorVars>>

\* handleClose, the onClose of Menu
AppBarHandleClose ==
    /\ RenderAppBar(viewportWidth, appBarAnchorEl).menu.open
    /\ appBarAnchorEl' = "null"
    /\ UNCHANGED <<viewportWidth, termsVars, storeVars, selectorVars>>

(***************************************************************************)
(* AppStore, the analytics module and the dialogs, as the toolbar uses     *)
(* them.                                                                   *)
(***************************************************************************)

\* Most schedules the store is driven to hold.
MaxSchedules == 2

\* Most finals-toggle clicks followed.
MaxToggles == 2

ScheduleNames == {"Schedule 1", "Plan B"}
TermsInUse == {"2023 Fall", "2023 Summer1"}
CourseIds == {"ICS 31"}

StoreEvents == {"addedCoursesChange", "customEventsChange", "colorChange",
                "currentScheduleIndexChange", "scheduleNamesChange"}

Min(S) == CHOOSE x \in S : \A y \in S : x <= y

\* The store (and the parent's finals flag) as one value, with the events a
\* mutation emitted.
CurrentStore ==
    [schedules |-> schedules, index |-> storeIndex, deleted |-> deleted,
     finals |-> showFinalsSchedule, emitted |-> {}]

\* AppStore.schedule.getNumberOfSchedules()
getNumberOfSchedules(st) == Len(st.schedules)

\* changeCurrentSchedule(index)
changeCurrentSchedule(st, index) ==
    IF index \in 0..(Len(st.schedules) - 1)
    THEN [st EXCEPT !.index = index,
                    !.emitted = @ \cup {"currentScheduleIndexChange"}]
    ELSE st

\* clearSchedules(): empties the current schedule, remembering what it held.
clearSchedules(st) ==
    LET held == st.schedules[st.index + 1].courses IN
    [st EXCEPT !.schedules[st.index + 1].courses = {},
               !.deleted = IF held = {} THEN @
                           ELSE <<[index |-> st.index, courses |-> held]>>,
               !.emitted = @ \cup {"addedCoursesChange", "customEventsChange"}]

\* undoDelete(null): brings back what the last deletion removed.
undoDelete(st) ==
    IF st.deleted = <<>> THEN st
    ELSE [st EXCEPT !.schedules[st.deleted[1].index + 1].courses =
                        @ \cup st.deleted[1].courses,
                    !.deleted = <<>>,
                    !.emitted = @ \cup {"addedCoursesChange", "customEventsChange",
                                        "colorChange"}]

\* props.toggleDisplayFinalsSchedule(), owned by the parent of the toolbar.
toggleDisplayFinalsSchedule(st) == [st EXCEPT !.finals = ~@]

\* The store action behind AddScheduleDialog.
addSchedule(st, name, term) ==
    [st EXCEPT !.schedules = Append(@, [scheduleName |-> name, term |-> term,
                                        courses |-> {}]),
               !.index = Len(st.schedules),
               !.emitted = @ \cup {"scheduleNamesChange", "currentScheduleIndexChange"}]

\* The store action behind RenameScheduleDialog.
renameSchedule(st, index, name) ==
    [st EXCEPT !.schedules[index + 1].scheduleName = name,
               !.emitted = @ \cup {"scheduleNamesChange"}]

\* The store action behind DeleteScheduleDialog; the store itself does not
\* refuse to delete its last schedule.
deleteSchedule(st, index) ==
    LET n == Len(st.schedules)
        kept == [k \in 1..(n - 1) |->
                    IF k <= index THEN st.schedules[k] ELSE st.schedules[k + 1]]
    IN [st EXCEPT !.schedules = kept,
                  !.index = IF st.index > n - 2 THEN n - 2 ELSE st.index,
                  !.deleted = <<>>,
                  !.emitted = @ \cup {"scheduleNamesChange", "currentScheduleIndexChange",
                                      "addedCoursesChange", "customEventsChange"}]

\* A course pane adds a course to the current schedule.
addCourse(st, course) ==
    [st EXCEPT !.schedules[st.index + 1].courses = @ \cup {course},
               !.emitted = @ \cup {"addedCoursesChange"}]

\* A course pane recolours a course.
changeCourseColor(st) == [st EXCEPT !.emitted = @ \cup {"colorChange"}]

\* AppStore.getTermToScheduleMap(): per term, in order of first appearance,
\* the (index, name) pairs of its schedules.
RECURSIVE GroupByTerm(_, _, _)
GroupByTerm(scheds, i, acc) ==
    IF i > Len(scheds) THEN acc
    ELSE LET pair == [index |-> i - 1, scheduleName |-> scheds[i].scheduleName]
             at == {k \in DOMAIN acc : acc[k].termName = scheds[i].term}
         IN IF at = {}
            THEN GroupByTerm(scheds, i + 1,
                     Append(acc, [termName |-> scheds[i].term, schedulePairs |-> <<pair>>]))
            ELSE GroupByTerm(scheds, i + 1,
                     [acc EXCEPT ![Min(at)].schedulePairs = Append(@, pair)])

getTermToScheduleMap(st) == GroupByTerm(st.schedules, 1, <<>>)

\* AppStore.on(event, handler)
On(ls, event, handler) == [ls EXCEPT ![event] = Append(@, handler)]

\* AppStore.off(event, handler): removes the latest registration of handler.
Off(ls, event, handler) ==
    LET at == {k \in DOMAIN ls[event] : ls[event][k] = handler} IN
    IF at = {} THEN ls
    ELSE LET last == CHOOSE k \in at : \A j \in at : j <= k IN
         [ls EXCEPT ![event] = [k \in 1..(Len(@) - 1) |->
                                   IF k < last THEN @[k] ELSE @[k + 1]]]

\* One call made by a handler: the callee, a label argument, an index argument.
Call(fn, arg, index) == [fn |-> fn, arg |-> arg, index |-> index]

\* logAnalytics({category: analyticsEnum.calendar.title, action})
LogAnalytics(action) == Call("logAnalytics", action, -1)

\* The effect of one call on the store.
ApplyCall(st, c) ==
    CASE c.fn = "changeCurrentSchedule" -> changeCurrentSchedule(st, c.index)
      [] c.fn = "undoDelete" -> undoDelete(st)
      [] c.fn = "clearSchedules" -> clearSchedules(st)
      [] c.fn = "toggleDisplayFinalsSchedule" -> toggleDisplayFinalsSchedule(st)
      [] OTHER -> st

\* The calls of a handler body, made in order.
RECURSIVE Exec(_, _)
Exec(cs, st) == IF cs = <<>> THEN st ELSE Exec(Tail(cs), ApplyCall(st, Head(cs)))

(***************************************************************************)
(* components/Calendar/CalendarToolbar.tsx                                 *)
(***************************************************************************)

\* handleScheduleChange(index)
handleScheduleChange(index) ==
    <<LogAnalytics("CHANGE_SCHEDULE"), Call("changeCurrentSchedule", "", index)>>

\* createScheduleSelector(index)(): the onClick of a schedule row
createScheduleSelector(index) == handleScheduleChange(index)

\* handleUndo with the store call ahead of the report.
handleUndoLate == <<Call("undoDelete", "null", -1), LogAnalytics("UNDO")>>

\* handleUndo()
handleUndo == <<LogAnalytics("UNDO"), Call("undoDelete", "null", -1)>>

\* handleClearSchedule that clears whatever the prompt answers.
handleClearScheduleAnyway(confirmed) ==
    <<Call("window.confirm", IF confirmed THEN "true" ELSE "false", -1),
      Call("clearSchedules", "", -1), LogAnalytics("CLEAR_SCHEDULE")>>

\* handleClearSchedule(); confirmed is what window.confirm returns.
handleClearSchedule(confirmed) ==
    <<Call("window.confirm", IF confirmed THEN "true" ELSE "false", -1)>>
    \o (IF confirmed
        THEN <<Call("clearSchedules", "", -1), LogAnalytics("CLEAR_SCHEDULE")>>
        ELSE <<>>)

\* handleToggleFinals that calls the prop twice.
handleToggleFinalsTwice ==
    <<LogAnalytics("DISPLAY_FINALS"), Call("toggleDisplayFinalsSchedule", "", -1),
      Call("toggleDisplayFinalsSchedule", "", -1)>>

\* handleToggleFinals()
handleToggleFinals ==
    <<LogAnalytics("DISPLAY_FINALS"), Call("toggleDisplayFinalsSchedule", "", -1)>>

\* The delete button disabled only when no schedule is left.
DeleteDisabledAtZero(n) == n = 0

\* disabled={AppStore.schedule.getNumberOfSchedules() === 1}
DeleteDisabled(n) == n = 1

\* The cleanup with the last off given the other handler.
CleanupWrongHandler ==
    <<<<"addedCoursesChange", "handleScheduleIndexChange">>,
      <<"customEventsChange", "handleScheduleIndexChange">>,
      <<"colorChange", "handleScheduleIndexChange">>,
      <<"currentScheduleIndexChange", "handleScheduleIndexChange">>,
      <<"scheduleNamesChange", "handleScheduleIndexChange">>>>

\* The AppStore.off calls of the effect's cleanup.
Cleanup ==
    <<<<"addedCoursesChange", "handleScheduleIndexChange">>,
      <<"customEventsChange", "handleScheduleIndexChange">>,
      <<"colorChange", "handleScheduleIndexChange">>,
      <<"currentScheduleIndexChange", "handleScheduleIndexChange">>,
      <<"scheduleNamesChange", "handleScheduleNamesChange">>>>

\* The AppStore.on calls of the effect.
Effect ==
    <<<<"addedCoursesChange", "handleScheduleIndexChange">>,
      <<"customEventsChange", "handleScheduleIndexChange">>,
      <<"colorChange", "handleScheduleIndexChange">>,
      <<"currentScheduleIndexChange", "handleScheduleIndexChange">>,
      <<"scheduleNamesChange", "handleScheduleNamesChange">>>>

RECURSIVE Subscribe(_, _)
Subscribe(ls, ons) ==
    IF ons = <<>> THEN ls ELSE Subscribe(On(ls, Head(ons)[1], Head(ons)[2]), Tail(ons))

RECURSIVE Unsubscribe(_, _)
Unsubscribe(ls, offs) ==
    IF offs = <<>> THEN ls
    ELSE Unsubscribe(Off(ls, Head(offs)[1], Head(offs)[2]), Tail(offs))

\* All (index, name) pairs of a schedule map, in iteration order, with their term.
RECURSIVE Pairs(_)
Pairs(map) ==
    IF map = <<>> THEN <<>>
    ELSE [k \in DOMAIN Head(map).schedulePairs |->
             [termName |-> Head(map).termName,
              index |-> Head(map).schedulePairs[k].index,
              scheduleName |-> Head(map).schedulePairs[k].scheduleName]]
         \o Pairs(Tail(map))

\* The body of the currentScheduleName memo: first pair with the index, else 'N/A'.
LookupScheduleName(map, index) ==
    LET flat == Pairs(map)
        at == {k \in DOMAIN flat : flat[k].index = index}
    IN IF at = {} THEN "N/A" ELSE flat[Min(at)].scheduleName

NoMemo == [dep |-> -1, value |-> ""]

\* useMemo(body, [currentScheduleIndex]): recomputed only when the index changed.
UseMemo(cell, map, index) ==
    IF cell # NoMemo /\ cell.dep = index THEN cell
    ELSE [dep |-> index, value |-> LookupScheduleName(map, index)]

NoDialog == [kind |-> "none", index |-> -1]
NoView == [name |-> "", open |-> FALSE, rows |-> <<>>]

\* What SelectSchedulePopover returns: the button's label, and when the popover
\* is open one row per schedule with its select, edit and delete buttons.
RenderSelector(index, map, anchor, name, n) ==
    [name |-> name,
     open |-> anchor # "undefined",
     rows |-> IF anchor = "undefined" THEN <<>>
              ELSE [k \in DOMAIN Pairs(map) |->
                       [termName |-> Pairs(map)[k].termName,
                        index |-> Pairs(map)[k].index,
                        scheduleName |-> Pairs(map)[k].scheduleName,
                        selected |-> Pairs(map)[k].index = index,
                        deleteDisabled |-> DeleteDisabled(n)]]]

\* DeleteScheduleButton(index) alone renders again (its own open state changed).
RenderDeleteButton(view, index, n) ==
    [view EXCEPT !.rows = [k \in DOMAIN @ |->
        IF @[k].index = index THEN [@[k] EXCEPT !.deleteDisabled = DeleteDisabled(n)]
        ELSE @[k]]]

RowIndices == {rendered.rows[k].index : k \in DOMAIN rendered.rows}
RowOf(index) == rendered.rows[CHOOSE k \in DOMAIN rendered.rows :
                                 rendered.rows[k].index = index]

\* The handlers the store calls for the events it emitted.
Invoked(st) == UNION {Range(listeners[e]) : e \in st.emitted}

\* End of a UI handler: the store is as the handler left it, the listeners of
\* the emitted events have run, and React renders what changed.
Commit(st, anchor, dlg, cs) ==
    LET invoked == Invoked(st)
        index == IF "handleScheduleIndexChange" \in invoked
                 THEN st.index ELSE currentScheduleIndex
        map == IF "handleScheduleNamesChange" \in invoked
               THEN getTermToScheduleMap(st) ELSE scheduleMap
        dirty == \/ index # currentScheduleIndex
                 \/ "handleScheduleNamesChange" \in invoked
                 \/ anchor # anchorEl
                 \/ st.finals # showFinalsSchedule
        cell == IF mounted /\ dirty THEN UseMemo(memo, map, index) ELSE memo
        button == IF dlg.kind = "delete" THEN dlg.index ELSE dialog.index
    IN /\ schedules' = st.schedules
       /\ storeIndex' = st.index
       /\ deleted' = st.deleted
       /\ showFinalsSchedule' = st.finals
       /\ currentScheduleIndex' = index
       /\ scheduleMap' = map
       /\ memo' = cell
       /\ anchorEl' = anchor
       /\ dialog' = dlg
       /\ rendered' =
            IF mounted /\ dirty
            THEN RenderSelector(index, map, anchor, cell.value, getNumberOfSchedules(st))
            ELSE IF mounted /\ dlg # dialog /\ "delete" \in {dlg.kind, dialog.kind}
            THEN RenderDeleteButton(rendered, button, getNumberOfSchedules(st))
            ELSE rendered
       /\ calls' = cs
       /\ UNCHANGED <<mounted, listeners, termsVars, appBarVars>>

InitStoreVars ==
    /\ schedules = <<[scheduleName |-> "Schedule 1", term |-> "2023 Fall", courses |-> {}]>>
    /\ storeIndex = 0
    /\ deleted = <<>>
    /\ initialFinals = showFinalsSchedule
    /\ toggles = 0

InitSelectorVars ==
    /\ mounted = FALSE
    /\ anchorEl = "undefined"
    /\ currentScheduleIndex = -1
    /\ scheduleMap = <<>>
    /\ memo = NoMemo
    /\ dialog = NoDialog
    /\ listeners = [e \in StoreEvents |-> <<>>]
    /\ rendered = NoView
    /\ calls = <<>>

\* SelectSchedulePopover mounts: the useState initialisers read the store, the
\* memo is computed, the effect subscribes, the first render is committed.
Mount ==
    /\ ~mounted
    /\ mounted' = TRUE
    /\ currentScheduleIndex' = storeIndex
    /\ scheduleMap' = getTermToScheduleMap(CurrentStore)
    /\ anchorEl' = "undefined"
    /\ dialog' = NoDialog
    /\ memo' = UseMemo(NoMemo, scheduleMap', storeIndex)
    /\ listeners' = Subscribe(listeners, Effect)
    /\ rendered' = RenderSelector(storeIndex, scheduleMap', "undefined", memo'.value,
                                  getNumberOfSchedules(CurrentStore))
    /\ calls' = <<>>
    /\ UNCHANGED <<storeVars, termsVars, appBarVars>>

\* Teardown: the effect's cleanup runs and the component's state is discarded.
Unmount ==
    /\ mounted
    /\ mounted' = FALSE
    /\ listeners' = Unsubscribe(listeners, Cleanup)
    /\ currentScheduleIndex' = -1
    /\ scheduleMap' = <<>>
    /\ anchorEl' = "undefined"
    /\ dialog' = NoDialog
    /\ memo' = NoMemo
    /\ rendered' = NoView
    /\ calls' = <<>>
    /\ UNCHANGED <<storeVars, termsVars, appBarVars>>

Idle == mounted /\ ~rendered.open /\ dialog = NoDialog
PopoverIdle == mounted /\ rendered.open /\ dialog = NoDialog

\* handleClick: the selector button is clicked.
HandleClick ==
    /\ Idle
    /\ Commit(CurrentStore, "SelectButton", NoDialog, <<>>)
    /\ UNCHANGED <<initialFinals, toggles>>

\* handleClose: the Popover's onClose (backdrop click, escape key).
HandleClose ==
    /\ PopoverIdle
    /\ Commit(CurrentStore, "undefined", NoDialog, <<>>)
    /\ UNCHANGED <<initialFinals, toggles>>

\* A schedule row is clicked.
SelectSchedule(index) ==
    /\ PopoverIdle
    /\ index \in RowIndices
    /\ Commit(Exec(createScheduleSelector(index), CurrentStore), anchorEl, NoDialog,
              createScheduleSelector(index))
    /\ UNCHANGED <<initialFinals, toggles>>

\* EditScheduleButton.handleOpen
OpenRename(index) ==
    /\ PopoverIdle
    /\ index \in RowIndices
    /\ Commit(CurrentStore, anchorEl, [kind |-> "rename", index |-> index], <<>>)
    /\ UNCHANGED <<initialFinals, toggles>>

\* DeleteScheduleButton.handleOpen; a disabled button takes no click.
OpenDelete(index) ==
    /\ PopoverIdle
    /\ index \in RowIndices
    /\ ~RowOf(index).deleteDisabled
    /\ Commit(CurrentStore, anchorEl, [kind |-> "delete", index |-> index], <<>>)
    /\ UNCHANGED <<initialFinals, toggles>>

\* AddScheduleButton.handleOpen
OpenAdd ==
    /\ PopoverIdle
    /\ Commit(CurrentStore, anchorEl, [kind |-> "add", index |-> -1], <<>>)
    /\ UNCHANGED <<initialFinals, toggles>>

\* handleClose of the three buttons: the dialog is dismissed.
DialogCancel ==
    /\ mounted
    /\ dialog # NoDialog
    /\ Commit(CurrentStore, anchorEl, NoDialog, <<>>)
    /\ UNCHANGED <<initialFinals, toggles>>

\* AddScheduleDialog is submitted.
AddConfirm(name, term) ==
    /\ mounted
    /\ dialog.kind = "add"
    /\ Len(schedules) < MaxSchedules
    /\ Commit(addSchedule(CurrentStore, name, term), anchorEl, NoDialog,
              <<Call("addSchedule", name, -1)>>)
    /\ UNCHANGED <<initialFinals, toggles>>

\* RenameScheduleDialog is submitted.
RenameConfirm(name) ==
    /\ mounted
    /\ dialog.kind = "rename"
    /\ Commit(renameSchedule(CurrentStore, dialog.index, name), anchorEl, NoDialog,
              <<Call("renameSchedule", name, dialog.index)>>)
    /\ UNCHANGED <<initialFinals, toggles>>

\* DeleteScheduleDialog is confirmed.
DeleteConfirm ==
    /\ mounted
    /\ dialog.kind = "delete"
    /\ Commit(deleteSchedule(CurrentStore, dialog.index), anchorEl, NoDialog,
              <<Call("deleteSchedule", "", dialog.index)>>)
    /\ UNCHANGED <<initialFinals, toggles>>

\* The undo button is clicked.
Undo ==
    /\ Idle
    /\ Commit(Exec(handleUndo, CurrentStore), anchorEl, NoDialog, handleUndo)
    /\ UNCHANGED <<initialFinals, toggles>>

\* The clear button is clicked and the prompt answered.
ClearSchedule(confirmed) ==
    /\ Idle
    /\ Commit(Exec(handleClearSchedule(confirmed), CurrentStore), anchorEl, NoDialog,
              handleClearSchedule(confirmed))
    /\ UNCHANGED <<initialFinals, toggles>>

\* The Finals button is clicked.
ToggleFinals ==
    /\ Idle
    /\ toggles < MaxToggles
    /\ toggles' = toggles + 1
    /\ Commit(Exec(handleToggleFinals, CurrentStore), anchorEl, NoDialog, handleToggleFinals)
    /\ UNCHANGED initialFinals

\* Another pane adds a course to the current schedule.
AddCourse(course) ==
    /\ ~rendered.open
    /\ course \notin schedules[storeIndex + 1].courses
    /\ Commit(addCourse(CurrentStore, course), anchorEl, dialog,
              <<Call("addCourse", course, -1)>>)
    /\ UNCHANGED <<initialFinals, toggles>>

\* Another pane recolours a course of the current schedule.
ChangeColor ==
    /\ ~rendered.open
    /\ schedules[storeIndex + 1].courses # {}
    /\ Commit(changeCourseColor(CurrentStore), anchorEl, dialog,
              <<Call("changeCourseColor", "", -1)>>)
    /\ UNCHANGED <<initialFinals, toggles>>

(***************************************************************************)
(* Specifications                                                          *)
(***************************************************************************)

\* The app bar as first rendered on a screen of breakpoint width, menu closed.
AppBarAtRest ==
    /\ viewportWidth = Breakpoint
    /\ appBarAnchorEl = "null"

\* Everything as first constructed, the finals view off.
Init ==
    /\ InitTermsVars
    /\ showFinalsSchedule = FALSE
    /\ InitStoreVars
    /\ InitSelectorVars
    /\ AppBarAtRest

\* The toolbar's parent may start with the finals view on or off.
InitToolbar ==
    /\ InitTermsVars
    /\ showFinalsSchedule \in BOOLEAN
    /\ InitStoreVars
    /\ InitSelectorVars
    /\ AppBarAtRest

InitAppBar ==
    /\ InitTermsVars
    /\ showFinalsSchedule = FALSE
    /\ InitStoreVars
    /\ InitSelectorVars
    /\ InitAppBarVars

NextTerms ==
    \/ EvalTermNamesArray
    \/ EvalTermNamesSchema
    \/ \E value \in Candidates : Validate(value)

NextAppBar ==
    \/ \E width \in Widths : Resize(width)
    \/ AppBarHandleClick
    \/ AppBarHandleClose

\* The schedule selector with its dialogs, the store-changing toolbar buttons
\* and the course panes.
Next ==
    \/ Mount
    \/ Unmount
    \/ HandleClick
    \/ HandleClose
    \/ \E index \in 0..(MaxSchedules - 1) : SelectSchedule(index)
    \/ \E index \in 0..(MaxSchedules - 1) : OpenRename(index)
    \/ \E index \in 0..(MaxSchedules - 1) : OpenDelete(index)
    \/ OpenAdd
    \/ DialogCancel
    \/ \E name \in ScheduleNames, term \in TermsInUse : AddConfirm(name, term)
    \/ \E name \in ScheduleNames : RenameConfirm(name)
    \/ DeleteConfirm
    \/ Undo
    \/ \E confirmed \in BOOLEAN : ClearSchedule(confirmed)
    \/ \E course \in CourseIds : AddCourse(course)
    \/ ChangeColor

\* The four toolbar actions (select, undo, clear, finals), with schedules added
\* under one name and term and courses added by the course panes.
NextToolbar ==
    \/ Mount
    \/ Unmount
    \/ HandleClick
    \/ HandleClose
    \/ \E index \in 0..(MaxSchedules - 1) : SelectSchedule(index)
    \/ OpenAdd
    \/ DialogCancel
    \/ AddConfirm("Plan B", "2023 Summer1")
    \/ Undo
    \/ \E confirmed \in BOOLEAN : ClearSchedule(confirmed)
    \/ ToggleFinals
    \/ \E course \in CourseIds : AddCourse(course)

SpecTerms == Init /\ [][NextTerms]_vars
SpecAppBar == InitAppBar /\ [][NextAppBar]_vars
SpecToolbar == InitToolbar /\ [][NextToolbar]_vars
Spec == Init /\ [][Next]_vars

(***************************************************************************)
(* Properties                                                              *)
(***************************************************************************)

ShortNames == {termsArray[i].shortName : i \in DOMAIN termsArray}

\* C1: a validated candidate is accepted if and only if it is the shortName of
\* a record of the table or one of 'Multiple Terms' and 'Any Term'; every
\* other string is rejected with errors.
TermNameValidation ==
    validation # "none" =>
        /\ validation \in {"ok", "ArkErrors"}
        /\ validation = "ok" <=> candidate \in ShortNames \cup {"Multiple Terms", "Any Term"}

\* An unrelated string was validated and rejected.
UnrelatedStringRejected == candidate = "Not A Term" /\ validation = "ArkErrors"

\* C2: once evaluated, termNamesArray holds the shortNames of the table in table
\* order followed by 'Multiple Terms' and 'Any Term', and nothing else.
TermNamesDerivation ==
    tpc # "termNamesArray" =>
        /\ Range(termNamesArray) = ShortNames \cup {"Multiple Terms", "Any Term"}
        /\ Len(termNamesArray) = Len(termsArray) + 2
        /\ \A i \in DOMAIN termsArray : termNamesArray[i] = termsArray[i].shortName
        /\ termNamesArray[Len(termsArray) + 1] = "Multiple Terms"
        /\ termNamesArray[Len(termsArray) + 2] = "Any Term"

\* The enumeration has been evaluated from the whole table.
TermNamesEvaluated == tpc = "TermNamesSchema" /\ Len(termNamesArray) > Len(termsArray)

\* C3: distinct records of the table have distinct shortNames, and no shortName
\* is a sentinel label, so the evaluated enumeration has no repeated entry.
ShortNameUnique ==
    /\ \A i, j \in DOMAIN termsArray :
           i # j => termsArray[i].shortName # termsArray[j].shortName
    /\ ShortNames \cap {"Multiple Terms", "Any Term"} = {}
    /\ tpc # "termNamesArray" => Cardinality(Range(termNamesArray)) = Len(termNamesArray)

\* The schema was built from the whole table and holds one literal per entry.
SchemaHoldsEveryName ==
    tpc = "ready" /\ Cardinality(TermNamesSchema) = Len(termsArray) + 2

\* C4: there is always at least one schedule, and while there is exactly one,
\* every rendered schedule row has its delete button disabled and no delete
\* dialog is open.
LastScheduleKept ==
    /\ Len(schedules) >= 1
    /\ Len(schedules) = 1 =>
           /\ dialog.kind # "delete"
           /\ \A k \in DOMAIN rendered.rows : rendered.rows[k].deleteDisabled

\* A schedule was just deleted through the dialog, one is left, and its row is
\* shown in the open popover.
DeletedDownToOne ==
    /\ Len(schedules) = 1
    /\ rendered.rows # <<>>
    /\ calls # <<>>
    /\ calls[1].fn = "deleteSchedule"

IsDeclinedClear(cs) ==
    cs # <<>> /\ cs[1].fn = "window.confirm" /\ cs[1].arg = "false"

\* C5: a clear-schedule click whose prompt is declined dispatches no
\* clearSchedules, reports no analytics event, and leaves the store as it was.
DeclinedClearChangesNothing ==
    [][IsDeclinedClear(calls') =>
          /\ \A k \in DOMAIN calls' : calls'[k].fn \notin {"clearSchedules", "logAnalytics"}
          /\ UNCHANGED <<schedules, storeIndex, deleted, showFinalsSchedule>>]_vars

\* The prompt was declined while the current schedule held courses.
DeclinedWithCourses ==
    IsDeclinedClear(calls) /\ schedules[storeIndex + 1].courses # {}

ReportedAs(fn) ==
    CASE fn = "changeCurrentSchedule" -> "CHANGE_SCHEDULE"
      [] fn = "undoDelete" -> "UNDO"
      [] fn = "clearSchedules" -> "CLEAR_SCHEDULE"
      [] fn = "toggleDisplayFinalsSchedule" -> "DISPLAY_FINALS"

ToolbarMutations ==
    {"changeCurrentSchedule", "undoDelete", "clearSchedules", "toggleDisplayFinalsSchedule"}

LogBefore(cs, k) ==
    \E j \in 1..(k - 1) : cs[j] = LogAnalytics(ReportedAs(cs[k].fn))

LogAfter(cs, k) ==
    \E j \in (k + 1)..Len(cs) : cs[j] = LogAnalytics(ReportedAs(cs[k].fn))

\* C7 as stated: every store mutation made by a toolbar handler comes after the
\* report of its analytics event.
ReportPrecedesMutation ==
    \A k \in DOMAIN calls : calls[k].fn \in ToolbarMutations => LogBefore(calls, k)

\* C7 as amended: changeCurrentSchedule, undoDelete and
\* toggleDisplayFinalsSchedule come after the report of their analytics event;
\* clearSchedules comes before the report of its event, and both after the
\* prompt was accepted.
ReportOrder ==
    \A k \in DOMAIN calls :
        /\ calls[k].fn \in ToolbarMutations \ {"clearSchedules"} =>
               LogBefore(calls, k) /\ ~LogAfter(calls, k)
        /\ calls[k].fn = "clearSchedules" =>
               /\ LogAfter(calls, k) /\ ~LogBefore(calls, k)
               /\ calls[1] = Call("window.confirm", "true", -1)

\* An accepted clear has run: the store call, then the report.
AcceptedClearRan ==
    /\ Len(calls) = 3
    /\ calls[2].fn = "clearSchedules"
    /\ calls[3] = LogAnalytics("CLEAR_SCHEDULE")

\* C8: while mounted, the selector has exactly one handler on each of the five
\* store events (the index handler on four, the names handler on
\* scheduleNamesChange); after teardown no handler is registered on any event
\* and the discarded index and map are never written again.
SubscriptionsMatched ==
    /\ DOMAIN listeners = {"addedCoursesChange", "customEventsChange", "colorChange",
                           "currentScheduleIndexChange", "scheduleNamesChange"}
    /\ mounted =>
           \A e \in DOMAIN listeners :
               listeners[e] = IF e = "scheduleNamesChange"
                              THEN <<"handleScheduleNamesChange">>
                              ELSE <<"handleScheduleIndexChange">>
    /\ ~mounted =>
           /\ \A e \in DOMAIN listeners : listeners[e] = <<>>
           /\ currentScheduleIndex = -1
           /\ scheduleMap = <<>>

\* The selector was torn down with a second schedule in the store, and the
\* store has since emitted addedCoursesChange for a course added to it.
TornDownThenEmitted ==
    /\ ~mounted
    /\ Len(schedules) > 1
    /\ calls = <<Call("addCourse", "ICS 31", -1)>>

\* C9: each finals-toggle click calls toggleDisplayFinalsSchedule once, so after
\* n clicks the flag is its initial value when n is even and the opposite when
\* n is odd.
FinalsParity ==
    /\ showFinalsSchedule = (IF toggles % 2 = 0 THEN initialFinals ELSE ~initialFinals)
    /\ (calls # <<>> /\ calls[1] = LogAnalytics("DISPLAY_FINALS")) =>
           Cardinality({k \in DOMAIN calls : calls[k].fn = "toggleDisplayFinalsSchedule"}) = 1

\* The Finals button was just clicked a second time.
ToggledTwice ==
    /\ toggles = 2
    /\ calls # <<>>
    /\ calls[1] = LogAnalytics("DISPLAY_FINALS")

\* C10: the bar shows the same five components in both layouts: inline with no
\* dropdown above the breakpoint; at or below it only inside one dropdown,
\* which is open exactly when the anchor is set.
AppBarLayout ==
    LET view == RenderAppBar(viewportWidth, appBarAnchorEl) IN
    /\ Len(components) = 5
    /\ viewportWidth > Breakpoint =>
           /\ view.inline = components
           /\ ~view.menu.present /\ ~view.menu.open /\ ~view.menuIcon
    /\ viewportWidth <= Breakpoint =>
           /\ view.inline = <<>>
           /\ view.menu.present /\ view.menuIcon
           /\ view.menu.items = components
           /\ view.menu.open <=> appBarAnchorEl # "null"
    /\ appBarAnchorEl \in {"null", "MenuIcon"}

\* The dropdown is open on a screen exactly as wide as the breakpoint.
MenuOpenAtBreakpoint ==
    viewportWidth = Breakpoint /\ appBarAnchorEl = "MenuIcon"

\* C11: in every rendered state of the selector, the name on the button is the
\* name paired with the cached current index in the cached schedule map ('N/A'
\* only when no pair has that index), also after the current schedule is
\* renamed without a change of index.
ButtonShowsCurrentName ==
    mounted => rendered.name = LookupScheduleName(scheduleMap, currentScheduleIndex)

====
